---------------------------- MODULE Spec2Model ----------------------------
(***************************************************************************)
(* The data pipeline of the India crime dashboard (src/app.py): load_data *)
(* normalises one CSV table, the script then filters it by year range and *)
(* crime group, aggregates it per state against the catalogue of states   *)
(* of the boundary file, and derives the drill-down, sub-group and trend  *)
(* views.  A DataFrame is a record [cols, rows]: the ordered column names *)
(* and the rows, each a function from column name to cell.                *)
(***************************************************************************)
EXTENDS Integers, Sequences, FiniteSets, TLC

(***************************************************************************)
(* Python strings.  Every string the model uses is listed with its code   *)
(* points, so that strip(), lower(), the substring test and the ordering  *)
(* of sorted() are computed character by character.                       *)
(***************************************************************************)
Strings ==
    {"Area_Name", "STATE/UT", "State/UT", "State", "STATE",
     "District", "DISTRICT", "Year", "Group_Name", "Sub_Group_Name",
     "Cases_Property_Stolen", "Cases_Property_Recovered", "Value_of_Property_Stolen", "Value_of_Property_Recovered", "Total_Crimes",
     "Total_Recovered", "Total_Value_Stolen", "Total_Value_Recovered", "Loss_Value", "Recovery_Rate",
     "Murders_Reported", "Victims", "CASES_Registered", "Foo", "Bar",
     "NCT of Delhi", "Delhi", "Orissa", "Odisha", "Uttaranchal",
     "Uttarakhand", "Jammu & Kashmir", "Jammu and Kashmir", "Andaman & Nicobar Islands", "Andaman and Nicobar",
     "Dadra & Nagar Haveli", "Dadra and Nagar Haveli", "Daman & Diu", "Daman and Diu", " Orissa",
     "Goa ", "Goa", "Overall", "Burglary", "Robbery",
     "nan", "abc", "2012", "2010", "x",
     "y", "All", "All India", "case", "crime",
     "total", "", "Sub_01", "Sub_02", "Sub_03",
     "Sub_04", "Sub_05", "Sub_06", "Sub_07", "Sub_08",
     "Sub_09", "Sub_10", "Sub_11", "Sub_12", "Sub_13",
     "Sub_14", "Sub_15", "Sub_16", "Sub_17", "Sub_18",
     "Sub_19", "Sub_20"}

CharsTable ==
  [s \in Strings |->
   CASE
          s = "Area_Name" -> <<65, 114, 101, 97, 95, 78, 97, 109, 101>>
       [] s = "STATE/UT" -> <<83, 84, 65, 84, 69, 47, 85, 84>>
       [] s = "State/UT" -> <<83, 116, 97, 116, 101, 47, 85, 84>>
       [] s = "State" -> <<83, 116, 97, 116, 101>>
       [] s = "STATE" -> <<83, 84, 65, 84, 69>>
       [] s = "District" -> <<68, 105, 115, 116, 114, 105, 99, 116>>
       [] s = "DISTRICT" -> <<68, 73, 83, 84, 82, 73, 67, 84>>
       [] s = "Year" -> <<89, 101, 97, 114>>
       [] s = "Group_Name" -> <<71, 114, 111, 117, 112, 95, 78, 97, 109, 101>>
       [] s = "Sub_Group_Name" -> <<83, 117, 98, 95, 71, 114, 111, 117, 112, 95, 78, 97, 109, 101>>
       [] s = "Cases_Property_Stolen" -> <<67, 97, 115, 101, 115, 95, 80, 114, 111, 112, 101, 114, 116, 121, 95, 83, 116, 111, 108, 101, 110>>
       [] s = "Cases_Property_Recovered" -> <<67, 97, 115, 101, 115, 95, 80, 114, 111, 112, 101, 114, 116, 121, 95, 82, 101, 99, 111, 118, 101, 114, 101, 100>>
       [] s = "Value_of_Property_Stolen" -> <<86, 97, 108, 117, 101, 95, 111, 102, 95, 80, 114, 111, 112, 101, 114, 116, 121, 95, 83, 116, 111, 108, 101, 110>>
       [] s = "Value_of_Property_Recovered" -> <<86, 97, 108, 117, 101, 95, 111, 102, 95, 80, 114, 111, 112, 101, 114, 116, 121, 95, 82, 101, 99, 111, 118, 101, 114, 101, 100>>
       [] s = "Total_Crimes" -> <<84, 111, 116, 97, 108, 95, 67, 114, 105, 109, 101, 115>>
       [] s = "Total_Recovered" -> <<84, 111, 116, 97, 108, 95, 82, 101, 99, 111, 118, 101, 114, 101, 100>>
       [] s = "Total_Value_Stolen" -> <<84, 111, 116, 97, 108, 95, 86, 97, 108, 117, 101, 95, 83, 116, 111, 108, 101, 110>>
       [] s = "Total_Value_Recovered" -> <<84, 111, 116, 97, 108, 95, 86, 97, 108, 117, 101, 95, 82, 101, 99, 111, 118, 101, 114, 101, 100>>
       [] s = "Loss_Value" -> <<76, 111, 115, 115, 95, 86, 97, 108, 117, 101>>
       [] s = "Recovery_Rate" -> <<82, 101, 99, 111, 118, 101, 114, 121, 95, 82, 97, 116, 101>>
       [] s = "Murders_Reported" -> <<77, 117, 114, 100, 101, 114, 115, 95, 82, 101, 112, 111, 114, 116, 101, 100>>
       [] s = "Victims" -> <<86, 105, 99, 116, 105, 109, 115>>
       [] s = "CASES_Registered" -> <<67, 65, 83, 69, 83, 95, 82, 101, 103, 105, 115, 116, 101, 114, 101, 100>>
       [] s = "Foo" -> <<70, 111, 111>>
       [] s = "Bar" -> <<66, 97, 114>>
       [] s = "NCT of Delhi" -> <<78, 67, 84, 32, 111, 102, 32, 68, 101, 108, 104, 105>>
       [] s = "Delhi" -> <<68, 101, 108, 104, 105>>
       [] s = "Orissa" -> <<79, 114, 105, 115, 115, 97>>
       [] s = "Odisha" -> <<79, 100, 105, 115, 104, 97>>
       [] s = "Uttaranchal" -> <<85, 116, 116, 97, 114, 97, 110, 99, 104, 97, 108>>
       [] s = "Uttarakhand" -> <<85, 116, 116, 97, 114, 97, 107, 104, 97, 110, 100>>
       [] s = "Jammu & Kashmir" -> <<74, 97, 109, 109, 117, 32, 38, 32, 75, 97, 115, 104, 109, 105, 114>>
       [] s = "Jammu and Kashmir" -> <<74, 97, 109, 109, 117, 32, 97, 110, 100, 32, 75, 97, 115, 104, 109, 105, 114>>
       [] s = "Andaman & Nicobar Islands" -> <<65, 110, 100, 97, 109, 97, 110, 32, 38, 32, 78, 105, 99, 111, 98, 97, 114, 32, 73, 115, 108, 97, 110, 100, 115>>
       [] s = "Andaman and Nicobar" -> <<65, 110, 100, 97, 109, 97, 110, 32, 97, 110, 100, 32, 78, 105, 99, 111, 98, 97, 114>>
       [] s = "Dadra & Nagar Haveli" -> <<68, 97, 100, 114, 97, 32, 38, 32, 78, 97, 103, 97, 114, 32, 72, 97, 118, 101, 108, 105>>
       [] s = "Dadra and Nagar Haveli" -> <<68, 97, 100, 114, 97, 32, 97, 110, 100, 32, 78, 97, 103, 97, 114, 32, 72, 97, 118, 101, 108, 105>>
       [] s = "Daman & Diu" -> <<68, 97, 109, 97, 110, 32, 38, 32, 68, 105, 117>>
       [] s = "Daman and Diu" -> <<68, 97, 109, 97, 110, 32, 97, 110, 100, 32, 68, 105, 117>>
       [] s = " Orissa" -> <<32, 79, 114, 105, 115, 115, 97>>
       [] s = "Goa " -> <<71, 111, 97, 32>>
       [] s = "Goa" -> <<71, 111, 97>>
       [] s = "Overall" -> <<79, 118, 101, 114, 97, 108, 108>>
       [] s = "Burglary" -> <<66, 117, 114, 103, 108, 97, 114, 121>>
       [] s = "Robbery" -> <<82, 111, 98, 98, 101, 114, 121>>
       [] s = "nan" -> <<110, 97, 110>>
       [] s = "abc" -> <<97, 98, 99>>
       [] s = "2012" -> <<50, 48, 49, 50>>
       [] s = "2010" -> <<50, 48, 49, 48>>
       [] s = "x" -> <<120>>
       [] s = "y" -> <<121>>
       [] s = "All" -> <<65, 108, 108>>
       [] s = "All India" -> <<65, 108, 108, 32, 73, 110, 100, 105, 97>>
       [] s = "case" -> <<99, 97, 115, 101>>
       [] s = "crime" -> <<99, 114, 105, 109, 101>>
       [] s = "total" -> <<116, 111, 116, 97, 108>>
       [] s = "" -> <<>>
       [] s = "Sub_01" -> <<83, 117, 98, 95, 48, 49>>
       [] s = "Sub_02" -> <<83, 117, 98, 95, 48, 50>>
       [] s = "Sub_03" -> <<83, 117, 98, 95, 48, 51>>
       [] s = "Sub_04" -> <<83, 117, 98, 95, 48, 52>>
       [] s = "Sub_05" -> <<83, 117, 98, 95, 48, 53>>
       [] s = "Sub_06" -> <<83, 117, 98, 95, 48, 54>>
       [] s = "Sub_07" -> <<83, 117, 98, 95, 48, 55>>
       [] s = "Sub_08" -> <<83, 117, 98, 95, 48, 56>>
       [] s = "Sub_09" -> <<83, 117, 98, 95, 48, 57>>
       [] s = "Sub_10" -> <<83, 117, 98, 95, 49, 48>>
       [] s = "Sub_11" -> <<83, 117, 98, 95, 49, 49>>
       [] s = "Sub_12" -> <<83, 117, 98, 95, 49, 50>>
       [] s = "Sub_13" -> <<83, 117, 98, 95, 49, 51>>
       [] s = "Sub_14" -> <<83, 117, 98, 95, 49, 52>>
       [] s = "Sub_15" -> <<83, 117, 98, 95, 49, 53>>
       [] s = "Sub_16" -> <<83, 117, 98, 95, 49, 54>>
       [] s = "Sub_17" -> <<83, 117, 98, 95, 49, 55>>
       [] s = "Sub_18" -> <<83, 117, 98, 95, 49, 56>>
       [] s = "Sub_19" -> <<83, 117, 98, 95, 49, 57>>
       [] s = "Sub_20" -> <<83, 117, 98, 95, 50, 48>>
  ]

Chars(s) == CharsTable[s]

FromChars(cs) == CHOOSE s \in Strings : CharsTable[s] = cs

IsSpace(c) == c \in {9, 10, 11, 12, 13, 32}

RECURSIVE LStrip(_)
LStrip(cs) == IF cs # <<>> /\ IsSpace(Head(cs)) THEN LStrip(Tail(cs)) ELSE cs

RECURSIVE RStrip(_)
RStrip(cs) ==
  IF cs # <<>> /\ IsSpace(cs[Len(cs)]) THEN RStrip(SubSeq(cs, 1, Len(cs) - 1)) ELSE cs

\* str.strip()
strip(s) == FromChars(LStrip(RStrip(Chars(s))))

LowerChar(c) == IF c >= 65 /\ c <= 90 THEN c + 32 ELSE c

\* str.lower(), on code points
lower(cs) == [i \in 1..Len(cs) |-> LowerChar(cs[i])]

\* needle in hay
Contains(needle, hay) ==
  \E i \in 0..(Len(hay) - Len(needle)) : SubSeq(hay, i + 1, i + Len(needle)) = needle

RECURSIVE LexLess(_, _)
LexLess(a, b) ==
  IF a = <<>> THEN b # <<>>
  ELSE IF b = <<>> THEN FALSE
  ELSE IF Head(a) # Head(b) THEN Head(a) < Head(b)
  ELSE LexLess(Tail(a), Tail(b))

\* the order sorted() and groupby put on strings
StrLess(s, t) == LexLess(Chars(s), Chars(t))

IsDigit(c) == c >= 48 /\ c <= 57

IsNumStr(s) == Chars(s) # <<>> /\ \A i \in 1..Len(Chars(s)) : IsDigit(Chars(s)[i])

RECURSIVE DigitsValue(_)
DigitsValue(cs) ==
  IF cs = <<>> THEN 0
  ELSE DigitsValue(SubSeq(cs, 1, Len(cs) - 1)) * 10 + (cs[Len(cs)] - 48)

(***************************************************************************)
(* Cells.  A cell is a number (a fraction n/d in lowest terms, d > 0), a  *)
(* string, or NaN/<NA>.                                                    *)
(***************************************************************************)
Abs(x) == IF x < 0 THEN -x ELSE x

RECURSIVE GCD(_, _)
GCD(a, b) == IF b = 0 THEN a ELSE GCD(b, a % b)

Frac(n, d) ==
  LET g == GCD(Abs(n), d)
  IN  [k |-> "num", n |-> n \div g, d |-> d \div g, s |-> ""]

Num(n) == [k |-> "num", n |-> n, d |-> 1, s |-> ""]
Str(s) == [k |-> "str", n |-> 0, d |-> 1, s |-> s]
NA == [k |-> "na", n |-> 0, d |-> 1, s |-> ""]

IsNum(x) == x.k = "num"
IsStr(x) == x.k = "str"
IsNA(x) == x.k = "na"

AddQ(a, b) == Frac(a.n * b.d + b.n * a.d, a.d * b.d)
SubQ(a, b) == Frac(a.n * b.d - b.n * a.d, a.d * b.d)
\* a / b for b > 0
DivQ(a, b) == Frac(a.n * b.d, a.d * b.n)
GtZero(a) == a.n > 0
LessQ(a, b) == a.n * b.d < b.n * a.d
LeqQ(a, b) == a.n * b.d <= b.n * a.d

RECURSIVE SumQ(_)
SumQ(xs) == IF xs = <<>> THEN Num(0) ELSE AddQ(Head(xs), SumQ(Tail(xs)))

(***************************************************************************)
(* DataFrames                                                              *)
(***************************************************************************)
Range(s) == {s[i] : i \in 1..Len(s)}

HasCol(f, c) == c \in Range(f.cols)

Column(f, c) == [i \in 1..Len(f.rows) |-> f.rows[i][c]]

\* dtype == "object": a column read_csv could not parse as numbers
IsObject(f, c) == \E i \in 1..Len(f.rows) : IsStr(f.rows[i][c])

\* df[c] = vals: in place when the column exists, appended otherwise
SetCol(f, c, vals) ==
  [cols |-> IF HasCol(f, c) THEN f.cols ELSE Append(f.cols, c),
   rows |-> [i \in 1..Len(f.rows) |->
               [x \in (DOMAIN f.rows[i]) \cup {c} |->
                  IF x = c THEN vals[i] ELSE f.rows[i][x]]]]

\* df[c] = v for a scalar v
SetColScalar(f, c, v) == SetCol(f, c, [i \in 1..Len(f.rows) |-> v])

\* df.rename(columns={old: new})
RenameCol(f, old, new) ==
  [cols |-> [i \in 1..Len(f.cols) |-> IF f.cols[i] = old THEN new ELSE f.cols[i]],
   rows |-> [i \in 1..Len(f.rows) |->
               [x \in ((DOMAIN f.rows[i]) \ {old}) \cup {new} |->
                  IF x = new THEN f.rows[i][old] ELSE f.rows[i][x]]]]

\* pd.to_numeric(x, errors="coerce") on one cell
ToNumericCoerce(x) ==
  IF IsStr(x) THEN (IF IsNumStr(x.s) THEN Num(DigitsValue(Chars(x.s))) ELSE NA) ELSE x

\* whether pd.to_numeric parses the cell without raising
Parses(x) == IsStr(x) => (IsNumStr(x.s) \/ lower(Chars(x.s)) = Chars("nan"))

\* pd.to_numeric(df[c], errors="ignore"): the column parsed, or as it was
ToNumericIgnore(f, c) ==
  IF \A i \in 1..Len(f.rows) : Parses(f.rows[i][c])
  THEN [i \in 1..Len(f.rows) |-> ToNumericCoerce(f.rows[i][c])]
  ELSE Column(f, c)

\* .fillna(0)
FillNa0(x) == IF IsNA(x) THEN Num(0) ELSE x

\* .astype(str).str.strip() on one cell of an object column
StripCell(x) ==
  IF IsStr(x) THEN Str(strip(x.s)) ELSE IF IsNA(x) THEN Str("nan") ELSE x

(***************************************************************************)
(* load_data                                                               *)
(***************************************************************************)
AreaAliases == <<"STATE/UT", "State/UT", "State", "STATE", "District", "DISTRICT">>

CategoricalCols == {"Area_Name", "Group_Name", "Sub_Group_Name"}

STATE_MAP ==
  [s \in {"NCT of Delhi", "Orissa", "Uttaranchal", "Jammu & Kashmir",
          "Andaman & Nicobar Islands", "Dadra & Nagar Haveli", "Daman & Diu"} |->
     CASE s = "NCT of Delhi" -> "Delhi"
       [] s = "Orissa" -> "Odisha"
       [] s = "Uttaranchal" -> "Uttarakhand"
       [] s = "Jammu & Kashmir" -> "Jammu and Kashmir"
       [] s = "Andaman & Nicobar Islands" -> "Andaman and Nicobar"
       [] s = "Dadra & Nagar Haveli" -> "Dadra and Nagar Haveli"
       [] s = "Daman & Diu" -> "Daman and Diu"]

\* lines 46-48
StripSpaces(f) ==
  [cols |-> f.cols,
   rows |-> [i \in 1..Len(f.rows) |->
               [c \in DOMAIN f.rows[i] |->
                  IF IsObject(f, c) THEN StripCell(f.rows[i][c]) ELSE f.rows[i][c]]]]

\* lines 51-52
CoerceYear(f) ==
  IF HasCol(f, "Year")
  THEN SetCol(f, "Year", [i \in 1..Len(f.rows) |-> ToNumericCoerce(f.rows[i]["Year"])])
  ELSE f

\* lines 55-60: the first alias present, in the order of the list
RECURSIVE FirstAlias(_, _)
FirstAlias(f, alts) ==
  IF alts = <<>> THEN ""
  ELSE IF HasCol(f, Head(alts)) THEN Head(alts)
  ELSE FirstAlias(f, Tail(alts))

RenameArea(f) ==
  IF HasCol(f, "Area_Name") \/ FirstAlias(f, AreaAliases) = "" THEN f
  ELSE RenameCol(f, FirstAlias(f, AreaAliases), "Area_Name")

\* lines 63-65
RECURSIVE ConvertNumericFrom(_, _)
ConvertNumericFrom(f, j) ==
  IF j > Len(f.cols) THEN f
  ELSE IF f.cols[j] \in CategoricalCols THEN ConvertNumericFrom(f, j + 1)
  ELSE ConvertNumericFrom(SetCol(f, f.cols[j], ToNumericIgnore(f, f.cols[j])), j + 1)

ConvertNumeric(f) == ConvertNumericFrom(f, 1)

\* pd.to_numeric(df[c], errors="coerce").fillna(0)
CoerceFill(f, c) == [i \in 1..Len(f.rows) |-> FillNa0(ToNumericCoerce(f.rows[i][c]))]

\* np.where(crimes > 0, recovered / crimes, 0)
RateOf(recovered, crimes) == IF GtZero(crimes) THEN DivQ(recovered, crimes) ELSE Num(0)

\* lines 69-76; df.get(c, 0) of a missing column is the scalar 0, pd.to_numeric
\* returns it as it is, and the int has no fillna
PropertyOptional ==
  <<"Cases_Property_Recovered", "Value_of_Property_Stolen", "Value_of_Property_Recovered">>

PropertyBranch(f) ==
  LET f1 == SetCol(f, "Total_Crimes", CoerceFill(f, "Cases_Property_Stolen"))
      f2 == SetCol(f1, "Total_Recovered", CoerceFill(f1, "Cases_Property_Recovered"))
      f3 == SetCol(f2, "Total_Value_Stolen", CoerceFill(f2, "Value_of_Property_Stolen"))
      f4 == SetCol(f3, "Total_Value_Recovered",
                   CoerceFill(f3, "Value_of_Property_Recovered"))
      f5 == SetCol(f4, "Loss_Value",
                   [i \in 1..Len(f4.rows) |->
                      SubQ(f4.rows[i]["Total_Value_Stolen"],
                           f4.rows[i]["Total_Value_Recovered"])])
  IN  SetCol(f5, "Recovery_Rate",
             [i \in 1..Len(f5.rows) |->
                RateOf(f5.rows[i]["Total_Recovered"], f5.rows[i]["Total_Crimes"])])

\* df.select_dtypes(include=[np.number]).columns.tolist()
NumericCols(f) == SelectSeq(f.cols, LAMBDA c : ~IsObject(f, c))

IsPreferredName(c) ==
  \/ Contains(Chars("case"), lower(Chars(c)))
  \/ Contains(Chars("crime"), lower(Chars(c)))
  \/ Contains(Chars("total"), lower(Chars(c)))

\* line 84
Preferred(f) == SelectSeq(NumericCols(f), IsPreferredName)

\* a base column chosen without the preference for case, crime or total
BaseCol_FirstNumeric(f) == NumericCols(f)[1]

\* line 85
BaseCol(f) == IF Preferred(f) # <<>> THEN Preferred(f)[1] ELSE NumericCols(f)[1]

\* lines 87-92
GenericBranch(f) ==
  LET f1 == SetCol(f, "Total_Crimes", CoerceFill(f, BaseCol(f)))
      f2 == SetColScalar(f1, "Total_Recovered", Num(0))
      f3 == SetColScalar(f2, "Loss_Value", Num(0))
  IN  SetColScalar(f3, "Recovery_Rate", Num(0))

\* lines 95-98
DefaultGroups(f) ==
  LET f1 == IF HasCol(f, "Group_Name") THEN f ELSE SetColScalar(f, "Group_Name", Str("Overall"))
  IN  IF HasCol(f1, "Sub_Group_Name") THEN f1
      ELSE SetColScalar(f1, "Sub_Group_Name", Str("Overall"))

\* Series.replace(STATE_MAP) on one cell
ReplaceState(x) ==
  IF IsStr(x) /\ x.s \in DOMAIN STATE_MAP THEN Str(STATE_MAP[x.s]) ELSE x

\* line 110
StandardizeStates(f) ==
  SetCol(f, "Area_Name", [i \in 1..Len(f.rows) |-> ReplaceState(f.rows[i]["Area_Name"])])

\* what load_data ends with: the table it returns, or the exception it raises
\* with the argument of the exception (the file, the key, the attribute)
Ok(f) == [err |-> "", arg |-> "", df |-> f]
Raise(kind, arg) == [err |-> kind, arg |-> arg, df |-> [cols |-> <<>>, rows |-> <<>>]]

\* lines 42-112: the statements of load_data on the table f0 that read_csv returned
load_data(f0, file_path) ==
  LET f == ConvertNumeric(RenameArea(CoerceYear(StripSpaces(f0))))
  IN  IF HasCol(f, "Cases_Property_Stolen")
      THEN IF \E i \in 1..Len(PropertyOptional) : ~HasCol(f, PropertyOptional[i])
           THEN Raise("AttributeError", "fillna")
           ELSE IF ~HasCol(f, "Area_Name") THEN Raise("KeyError", "Area_Name")
           ELSE Ok(StandardizeStates(DefaultGroups(PropertyBranch(f))))
      ELSE IF NumericCols(f) = <<>> THEN Raise("ValueError", file_path)
           ELSE IF ~HasCol(f, "Area_Name") THEN Raise("KeyError", "Area_Name")
           ELSE Ok(StandardizeStates(DefaultGroups(GenericBranch(f))))


(***************************************************************************)
(* The catalogue of states and the aggregations of the script              *)
(***************************************************************************)
RECURSIVE SortedStrs(_)
SortedStrs(S) ==
  IF S = {} THEN <<>>
  ELSE LET m == CHOOSE x \in S : \A y \in S \ {x} : StrLess(x, y)
       IN  <<m>> \o SortedStrs(S \ {m})

RECURSIVE SortedInts(_)
SortedInts(S) ==
  IF S = {} THEN <<>>
  ELSE LET m == CHOOSE x \in S : \A y \in S : x <= y
       IN  <<m>> \o SortedInts(S \ {m})

\* lines 37-38: sorted(set(states)) of the features' names
get_all_states_df(india_geojson) == SortedStrs(Range(india_geojson))

\* line 130: sorted(df["Year"].dropna().unique()), [] without a Year column
YearsOf(f) ==
  IF HasCol(f, "Year")
  THEN SortedInts({f.rows[i]["Year"].n : i \in {j \in 1..Len(f.rows) : IsNum(f.rows[j]["Year"])}})
  ELSE <<>>

\* a year filter with the upper bound left out of the range
InYearRange_Exclusive(row, lo, hi) ==
  IsNum(row["Year"]) /\ row["Year"].n >= lo * row["Year"].d /\ row["Year"].n < hi * row["Year"].d

\* line 134: (df["Year"] >= lo) & (df["Year"] <= hi); a comparison with <NA> is not True
InYearRange(row, lo, hi) ==
  IsNum(row["Year"]) /\ row["Year"].n >= lo * row["Year"].d /\ row["Year"].n <= hi * row["Year"].d

YearFiltered(f, lo, hi) ==
  [cols |-> f.cols, rows |-> SelectSeq(f.rows, LAMBDA r : InYearRange(r, lo, hi))]

\* line 139
GroupOptions(f) ==
  SortedStrs({f.rows[i]["Group_Name"].s : i \in {j \in 1..Len(f.rows) : IsStr(f.rows[j]["Group_Name"])}})

\* line 142
GroupFiltered(f, g) ==
  [cols |-> f.cols, rows |-> SelectSeq(f.rows, LAMBDA r : r["Group_Name"] = Str(g))]

\* the keys of df.groupby(c): the values present, NaN dropped
StrKeys(f, c) == {f.rows[i][c].s : i \in {j \in 1..Len(f.rows) : IsStr(f.rows[j][c])}}

\* ("v", "sum") over the rows of one group
GroupSum(f, c, key, v) ==
  LET g == SelectSeq(f.rows, LAMBDA r : r[c] = key)
  IN  SumQ([i \in 1..Len(g) |-> g[i][v]])

\* a summary row with the rate aggregated as ("Recovery_Rate", "mean")
AggRow_MeanRate(f, a) ==
  LET g == SelectSeq(f.rows, LAMBDA r : r["Area_Name"] = Str(a))
  IN  [Area_Name |-> a,
       Total_Crimes |-> GroupSum(f, "Area_Name", Str(a), "Total_Crimes"),
       Total_Recovered |-> GroupSum(f, "Area_Name", Str(a), "Total_Recovered"),
       Loss_Value |-> GroupSum(f, "Area_Name", Str(a), "Loss_Value"),
       Recovery_Rate |-> DivQ(GroupSum(f, "Area_Name", Str(a), "Recovery_Rate"), Num(Len(g)))]

\* lines 145-158: one row per Area_Name, in key order, with the rate recomputed
AggRow(f, a) ==
  LET crimes == GroupSum(f, "Area_Name", Str(a), "Total_Crimes")
      recovered == GroupSum(f, "Area_Name", Str(a), "Total_Recovered")
  IN  [Area_Name |-> a,
       Total_Crimes |-> crimes,
       Total_Recovered |-> recovered,
       Loss_Value |-> GroupSum(f, "Area_Name", Str(a), "Loss_Value"),
       Recovery_Rate |-> RateOf(recovered, crimes)]

GroupByArea(f) ==
  LET keys == SortedStrs(StrKeys(f, "Area_Name"))
  IN  [i \in 1..Len(keys) |-> AggRow(f, keys[i])]

NaNRow(a) ==
  [Area_Name |-> a, Total_Crimes |-> NA, Total_Recovered |-> NA,
   Loss_Value |-> NA, Recovery_Rate |-> NA]

\* the merge with how="inner": the states without a row of the table are left out
RECURSIVE MergeLeft_Inner(_, _)
MergeLeft_Inner(states, agg) ==
  IF states = <<>> THEN <<>>
  ELSE SelectSeq(agg, LAMBDA r : r.Area_Name = Head(states)) \o MergeLeft_Inner(Tail(states), agg)

\* line 161: all_states_df.merge(agg, on="Area_Name", how="left")
RECURSIVE MergeLeft(_, _)
MergeLeft(states, agg) ==
  IF states = <<>> THEN <<>>
  ELSE LET m == SelectSeq(agg, LAMBDA r : r.Area_Name = Head(states))
       IN  (IF m = <<>> THEN <<NaNRow(Head(states))>> ELSE m) \o MergeLeft(Tail(states), agg)

\* lines 163-165
FillRow(r) ==
  [Area_Name |-> r.Area_Name,
   Total_Crimes |-> FillNa0(r.Total_Crimes),
   Total_Recovered |-> FillNa0(r.Total_Recovered),
   Loss_Value |-> FillNa0(r.Loss_Value),
   Recovery_Rate |-> FillNa0(r.Recovery_Rate)]

\* lines 145-165
StateSummary(f, india_geojson) ==
  LET m == MergeLeft(get_all_states_df(india_geojson), GroupByArea(f))
  IN  [i \in 1..Len(m) |-> FillRow(m[i])]

\* int(x): towards zero
IntOf(q) == IF q.n >= 0 THEN q.n \div q.d ELSE -((-q.n) \div q.d)

\* lines 168-169
KpiSum(agg, v) == IntOf(SumQ([i \in 1..Len(agg) |-> agg[i][v]]))

\* lines 214-217
DrillOf(f, state) ==
  IF state = "All India" THEN f
  ELSE [cols |-> f.cols, rows |-> SelectSeq(f.rows, LAMBDA r : r["Area_Name"] = Str(state))]

\* lines 224-225
GroupBySub(f) ==
  LET keys == SortedStrs(StrKeys(f, "Sub_Group_Name"))
  IN  [i \in 1..Len(keys) |->
         [Sub_Group_Name |-> keys[i],
          Total_Crimes |-> GroupSum(f, "Sub_Group_Name", Str(keys[i]), "Total_Crimes")]]

\* line 226: sort_values("Total_Crimes", ascending=False) with the default kind,
\* quicksort, which is not stable: every non-increasing order of the rows is a
\* result some build gives
RECURSIVE SortValuesDesc(_)
SortValuesDesc(S) ==
  IF S = {} THEN {<<>>}
  ELSE UNION {{<<x>> \o t : t \in SortValuesDesc(S \ {x})} :
                x \in {y \in S : \A z \in S : LeqQ(z.Total_Crimes, y.Total_Crimes)}}

TopN == 15

\* line 227: head(15)
HeadN(s) == SubSeq(s, 1, IF Len(s) < TopN THEN Len(s) ELSE TopN)

\* the test of line 242 without its notna().any()
HasYearData_ColumnOnly(f) == HasCol(f, "Year")

\* line 242
HasYearData(f) == HasCol(f, "Year") /\ \E i \in 1..Len(f.rows) : IsNum(f.rows[i]["Year"])

\* lines 243-247
TrendOf(f) ==
  LET keys == YearsOf(f)
  IN  [i \in 1..Len(keys) |->
         [Year |-> keys[i],
          Total_Crimes |-> GroupSum(f, "Year", Num(keys[i]), "Total_Crimes")]]

(***************************************************************************)
(* The inputs: the CSV tables as read_csv returns them and the features   *)
(* of the boundary file.                                                   *)
(***************************************************************************)
DATASETS ==
  [n \in {"Property Crime", "Murders", "Kidnapping & Abduction", "Crime Against Women",
          "Frauds", "Auto Theft", "Complaint against police", "Trial of violent crimes"} |->
     CASE n = "Property Crime" -> "property_crime_cleaned.csv"
       [] n = "Murders" -> "murder_cleaned.csv"
       [] n = "Kidnapping & Abduction" -> "kidnapping_cleaned.csv"
       [] n = "Crime Against Women" -> "women_crimes_cleaned.csv"
       [] n = "Frauds" -> "frauds_cleaned.csv"
       [] n = "Auto Theft" -> "auto_theft_cleaned.csv"
       [] n = "Complaint against police" -> "police_complaints_cleaned.csv"
       [] n = "Trial of violent crimes" -> "trials_cleaned.csv"]

\* rows of a table: at most MaxRows of the rows listed for its file
MaxRows == 3

\* sub-groups of the tables with more sub-groups than the chart shows
NSub == 17

\* the widest run of equal totals in those tables
MaxTie == 3

Row(cols, vals) == [c \in Range(cols) |-> vals[CHOOSE i \in 1..Len(cols) : cols[i] = c]]

PropertyCols ==
  <<"Area_Name", "Year", "Group_Name", "Sub_Group_Name", "Cases_Property_Recovered",
    "Cases_Property_Stolen", "Value_of_Property_Recovered", "Value_of_Property_Stolen">>

Files ==
  << [name |-> "Property Crime", cols |-> PropertyCols,
      pool |-> << <<Str(" Orissa"), Num(2010), Str("Burglary"), Str("Sub_01"),
                    Num(5), Num(10), Num(1), Num(3)>>,
                  <<Str("Odisha"), Num(2012), Str("Burglary"), Str("Sub_02"),
                    Num(0), Num(0), Num(0), Num(0)>>,
                  <<Str("Delhi"), Num(2015), Str("Robbery"), Str("Sub_01"),
                    Num(2), Num(1), Num(4), Num(1)>>,
                  <<Str("Goa "), NA, Str("Robbery"), Str("Sub_03"),
                    NA, Num(2), Num(0), Num(2)>>,
                  <<Str("NCT of Delhi"), Num(2012), Str("Robbery"), Str("Sub_02"),
                    Num(1), Num(2), Num(1), Num(1)>> >>],
     [name |-> "Murders", cols |-> <<"Area_Name", "Murders_Reported">>,
      pool |-> << <<Str("Orissa"), Num(3)>>, <<Str("Delhi"), Num(0)>>,
                  <<Str("Goa"), NA>>, <<Str("Odisha"), Num(4)>> >>],
     [name |-> "Kidnapping & Abduction",
      cols |-> <<"State", "Year", "Group_Name", "Victims", "CASES_Registered">>,
      pool |-> << <<Str("Delhi"), Num(2010), Str("Overall"), Num(7), Num(3)>>,
                  <<Str("Odisha"), Num(2012), Str("Robbery"), Num(1), Num(2)>>,
                  <<Str("Delhi"), NA, Str("Robbery"), Num(2), NA>> >>],
     [name |-> "Crime Against Women", cols |-> <<"STATE/UT", "Year", "Victims">>,
      pool |-> << <<Str("Odisha"), Num(2010), Num(4)>>, <<Str("Goa"), Num(2012), Num(1)>>,
                  <<Str("Delhi"), NA, Num(2)>> >>],
     [name |-> "Frauds", cols |-> <<"Area_Name", "Total_Recovered", "Murders_Reported">>,
      pool |-> << <<Str("Odisha"), Num(5), Num(9)>>, <<Str("Delhi"), Num(0), Num(2)>> >>],
     [name |-> "Auto Theft", cols |-> <<"District", "Year", "Victims">>,
      pool |-> << <<Str("Delhi"), Str("2012"), Num(6)>>, <<NA, Str("abc"), Num(1)>>,
                  <<Str("Goa"), Str("2010"), Num(2)>> >>],
     [name |-> "Complaint against police", cols |-> <<"Foo", "Bar">>,
      pool |-> << <<Str("x"), Str("y")>>, <<Str("abc"), Str("x")>>,
                  <<Str("x"), Num(1)>>, <<Str("y"), Num(2)>> >>],
     [name |-> "Trial of violent crimes", cols |-> <<"District", "Cases_Property_Stolen">>,
      pool |-> << <<Str("Delhi"), Num(1)>>, <<Str("Goa"), Num(2)>> >>],
     [name |-> "Trial of violent crimes", cols |-> <<"Area_Name", "Group_Name">>,
      pool |-> << <<Str("Delhi"), Str("Robbery")>>, <<Str("Goa"), Str("Overall")>> >>] >>

\* what read_csv can return: a column holds strings only when one of its cells
\* is no number, and then every cell present is a string
WellFormedRaw(f) ==
  /\ f.rows # <<>>
  /\ \A j \in 1..Len(f.cols) :
       LET c == f.cols[j]
       IN  IsObject(f, c) =>
             /\ \A i \in 1..Len(f.rows) : ~IsNum(f.rows[i][c])
             /\ \E i \in 1..Len(f.rows) : IsStr(f.rows[i][c]) /\ ~Parses(f.rows[i][c])

SmallTables(file) ==
  {f \in {[cols |-> file.cols,
           rows |-> [i \in 1..Cardinality(S) |-> Row(file.cols, file.pool[SortedInts(S)[i]])]] :
             S \in {T \in SUBSET (1..Len(file.pool)) : Cardinality(T) <= MaxRows}} :
     WellFormedRaw(f)}

SubNames ==
  <<"Sub_01", "Sub_02", "Sub_03", "Sub_04", "Sub_05", "Sub_06", "Sub_07", "Sub_08",
    "Sub_09", "Sub_10", "Sub_11", "Sub_12", "Sub_13", "Sub_14", "Sub_15", "Sub_16",
    "Sub_17", "Sub_18", "Sub_19", "Sub_20">>

WideCols == <<"Area_Name", "Sub_Group_Name", "CASES_Registered">>

\* NSub sub-groups, the i-th with i cases, but for w of them from the a-th on,
\* which have a cases each
WideTable(a, w) ==
  [cols |-> WideCols,
   rows |-> [i \in 1..NSub |->
               Row(WideCols, <<Str("Delhi"), Str(SubNames[i]),
                               Num(IF i >= a /\ i < a + w THEN a ELSE i)>>)]]

WideTables == {WideTable(a, w) : a \in 1..NSub, w \in 1..MaxTie}

GeoFiles ==
  { <<"Odisha", "Delhi", "Odisha">>, <<"Goa", "Delhi", "Odisha", "Uttarakhand">> }

EmptyFrame == [cols |-> <<>>, rows |-> <<>>]

VARIABLES
  pc,               \* the statement of the script reached
  dataset_name,     \* line 119
  dataset_file,     \* line 120
  raw,              \* line 43: what read_csv returned
  india_geojson,    \* line 127: the NAME_1 of the features, in file order
  loaded,           \* what load_data returned (and st.cache_data keeps)
  error,            \* the exception load_data raised, if any
  df,               \* the script's df
  year_range,       \* lines 133, 136: <<lo, hi>>, or <<>> for None
  selected_group,   \* line 140
  state_agg,        \* lines 145-165
  total_crimes,     \* line 168
  total_recovered,  \* line 169
  recovery_rate,    \* line 170
  selected_state,   \* line 209
  drill,            \* lines 214-217
  sub_grp,          \* lines 223-228
  trend             \* lines 242-251: the trend, or the st.info outcome

vars ==
  <<pc, dataset_name, dataset_file, raw, india_geojson, loaded, error, df, year_range,
    selected_group, state_agg, total_crimes, total_recovered, recovery_rate,
    selected_state, drill, sub_grp, trend>>

Init ==
  /\ pc = "start"
  /\ \E i \in 1..Len(Files) :
       /\ dataset_name = Files[i].name
       /\ raw \in SmallTables(Files[i]) \cup (IF Files[i].name = "Frauds" THEN WideTables ELSE {})
  /\ dataset_file = DATASETS[dataset_name]
  /\ india_geojson \in GeoFiles
  /\ loaded = EmptyFrame
  /\ error = [kind |-> "", arg |-> ""]
  /\ df = EmptyFrame
  /\ year_range = <<>>
  /\ selected_group = ""
  /\ state_agg = <<>>
  /\ total_crimes = 0
  /\ total_recovered = 0
  /\ recovery_rate = Num(0)
  /\ selected_state = ""
  /\ drill = EmptyFrame
  /\ sub_grp = <<>>
  /\ trend = [available |-> FALSE, rows |-> <<>>]

\* line 126
LoadData ==
  /\ pc = "start"
  /\ LET r == load_data(raw, dataset_file)
     IN  /\ error' = [kind |-> r.err, arg |-> r.arg]
         /\ loaded' = r.df
         /\ df' = r.df
         /\ pc' = IF r.err = "" THEN "loaded" ELSE "error"
  /\ UNCHANGED <<dataset_name, dataset_file, raw, india_geojson, year_range, selected_group,
                 state_agg, total_crimes, total_recovered, recovery_rate, selected_state,
                 drill, sub_grp, trend>>

\* lines 130-136
YearFilter ==
  /\ pc = "loaded"
  /\ LET years == YearsOf(df)
     IN  IF years # <<>>
         THEN \E lo \in years[1]..years[Len(years)] :
                \E hi \in lo..years[Len(years)] :
                  /\ year_range' = <<lo, hi>>
                  /\ df' = YearFiltered(df, lo, hi)
         ELSE /\ year_range' = <<>>
              /\ df' = df
  /\ pc' = "yeared"
  /\ UNCHANGED <<dataset_name, dataset_file, raw, india_geojson, loaded, error,
                 selected_group, state_agg, total_crimes, total_recovered, recovery_rate,
                 selected_state, drill, sub_grp, trend>>

\* lines 139-142
GroupFilter ==
  /\ pc = "yeared"
  /\ \E g \in {"All"} \cup Range(GroupOptions(df)) :
       /\ selected_group' = g
       /\ df' = IF g # "All" THEN GroupFiltered(df, g) ELSE df
  /\ pc' = "grouped"
  /\ UNCHANGED <<dataset_name, dataset_file, raw, india_geojson, loaded, error, year_range,
                 state_agg, total_crimes, total_recovered, recovery_rate, selected_state,
                 drill, sub_grp, trend>>

\* line 170
RatePct(recovered, crimes) ==
  IF crimes = 0 THEN Num(0)
  ELSE IF crimes > 0 THEN Frac(recovered * 100, crimes)
  ELSE Frac(-(recovered * 100), -crimes)

\* lines 145-170
StateAgg ==
  /\ pc = "grouped"
  /\ state_agg' = StateSummary(df, india_geojson)
  /\ total_crimes' = KpiSum(state_agg', "Total_Crimes")
  /\ total_recovered' = KpiSum(state_agg', "Total_Recovered")
  /\ recovery_rate' = RatePct(total_recovered', total_crimes')
  /\ pc' = "aggregated"
  /\ UNCHANGED <<dataset_name, dataset_file, raw, india_geojson, loaded, error, df,
                 year_range, selected_group, selected_state, drill, sub_grp, trend>>

\* lines 209-217
SelectState ==
  /\ pc = "aggregated"
  /\ \E s \in {"All India"} \cup {state_agg[i].Area_Name : i \in 1..Len(state_agg)} :
       /\ selected_state' = s
       /\ drill' = DrillOf(df, s)
  /\ pc' = "drilled"
  /\ UNCHANGED <<dataset_name, dataset_file, raw, india_geojson, loaded, error, df,
                 year_range, selected_group, state_agg, total_crimes, total_recovered,
                 recovery_rate, sub_grp, trend>>

\* lines 223-228
SubGrp ==
  /\ pc = "drilled"
  /\ \E s \in SortValuesDesc(Range(GroupBySub(drill))) : sub_grp' = HeadN(s)
  /\ pc' = "subgrouped"
  /\ UNCHANGED <<dataset_name, dataset_file, raw, india_geojson, loaded, error, df,
                 year_range, selected_group, state_agg, total_crimes, total_recovered,
                 recovery_rate, selected_state, drill, trend>>

\* lines 242-251
Trend ==
  /\ pc = "subgrouped"
  /\ trend' = IF HasYearData(drill)
              THEN [available |-> TRUE, rows |-> TrendOf(drill)]
              ELSE [available |-> FALSE, rows |-> <<>>]
  /\ pc' = "done"
  /\ UNCHANGED <<dataset_name, dataset_file, raw, india_geojson, loaded, error, df,
                 year_range, selected_group, state_agg, total_crimes, total_recovered,
                 recovery_rate, selected_state, drill, sub_grp>>

Next == LoadData \/ YearFilter \/ GroupFilter \/ StateAgg \/ SelectState \/ SubGrp \/ Trend

Spec == Init /\ [][Next]_vars

(***************************************************************************)
(* Properties                                                              *)
(***************************************************************************)
AfterAgg == pc \in {"aggregated", "drilled", "subgrouped", "done"}

Catalog == Range(india_geojson)

\* the rows of f whose Area_Name is the string a
RowsOfArea(f, a) ==
  {i \in 1..Len(f.rows) : IsStr(f.rows[i]["Area_Name"]) /\ f.rows[i]["Area_Name"].s = a}

\* the total of column v over the rows with index in I, added up row by row
RECURSIVE TotalOver(_, _, _)
TotalOver(f, I, v) ==
  IF I = {} THEN Num(0)
  ELSE LET i == CHOOSE j \in I : TRUE
       IN  AddQ(f.rows[i][v], TotalOver(f, I \ {i}, v))

\* C1: the state summary has exactly one row for every region of the catalogue and
\* none for any other region, and a catalogue region with no surviving row has
\* Total_Crimes, Total_Recovered, Loss_Value and Recovery_Rate all 0, never NaN.
C1_SummaryCoversCatalog ==
  AfterAgg =>
    /\ \A a \in Catalog : Cardinality({i \in 1..Len(state_agg) : state_agg[i].Area_Name = a}) = 1
    /\ \A i \in 1..Len(state_agg) :
         /\ state_agg[i].Area_Name \in Catalog
         /\ IsNum(state_agg[i].Total_Crimes) /\ IsNum(state_agg[i].Total_Recovered)
         /\ IsNum(state_agg[i].Loss_Value) /\ IsNum(state_agg[i].Recovery_Rate)
         /\ RowsOfArea(df, state_agg[i].Area_Name) = {} =>
              /\ state_agg[i].Total_Crimes = Num(0)
              /\ state_agg[i].Total_Recovered = Num(0)
              /\ state_agg[i].Loss_Value = Num(0)
              /\ state_agg[i].Recovery_Rate = Num(0)

\* a summary of a table with rows, over a catalogue with a region the table has no
\* row for, while the table has rows of a region that is not in the catalogue
C1_Witness ==
  /\ AfterAgg
  /\ df.rows # <<>>
  /\ \E a \in Catalog : RowsOfArea(df, a) = {}
  /\ \E i \in 1..Len(df.rows) : df.rows[i]["Area_Name"].s \notin Catalog
  /\ \E i \in 1..Len(state_agg) : GtZero(state_agg[i].Total_Crimes)

\* C2: every row of the state summary has Total_Crimes, Total_Recovered and
\* Loss_Value >= 0 and Recovery_Rate in [0,1], whatever table load_data produced.
C2_FieldsNonNegativeRateInUnit ==
  AfterAgg =>
    \A i \in 1..Len(state_agg) :
      /\ LeqQ(Num(0), state_agg[i].Total_Crimes)
      /\ LeqQ(Num(0), state_agg[i].Total_Recovered)
      /\ LeqQ(Num(0), state_agg[i].Loss_Value)
      /\ LeqQ(Num(0), state_agg[i].Recovery_Rate)
      /\ LeqQ(state_agg[i].Recovery_Rate, Num(1))

\* C3: the Total Crimes KPI, the sum of Total_Crimes over the state summary, equals
\* the sum of Total_Crimes over the rows that survive the year and group filters.
C3_Conservation ==
  AfterAgg => total_crimes = IntOf(TotalOver(df, 1..Len(df.rows), "Total_Crimes"))

\* the table read has a column for the region, under its name or an alias
HasRegionColumn(f) == \E c \in {"Area_Name"} \cup Range(AreaAliases) : HasCol(f, c)

\* C4: a table with no column named Area_Name or one of its aliases makes load_data
\* end with the error raised for the missing region column, whatever its other
\* columns hold, and no table is produced.
C4_NoRegionColumnRaisesForIt ==
  (pc # "start" /\ ~HasRegionColumn(raw)) =>
    /\ pc = "error"
    /\ error.arg = "Area_Name"
    /\ loaded = EmptyFrame

\* the table at the branch on the kind of dataset (line 68)
AtBranch(f) == ConvertNumeric(RenameArea(CoerceYear(StripSpaces(f))))

\* column j of f is numeric and holds the base column of C5: the first numeric
\* column with case, crime or total in its name, or, when no numeric column has,
\* the first numeric column
IsBaseIndex(f, j) ==
  LET numeric(i) == ~IsObject(f, f.cols[i])
      named(i) == numeric(i) /\ IsPreferredName(f.cols[i])
  IN  /\ numeric(j)
      /\ \/ named(j) /\ \A i \in 1..(j - 1) : ~named(i)
         \/ (\A i \in 1..Len(f.cols) : ~named(i)) /\ \A i \in 1..(j - 1) : ~numeric(i)

\* C5: in a dataset without Cases_Property_Stolen, Total_Crimes is the base column
\* (missing values 0): the first numeric column named with case, crime or total,
\* else the first numeric column; Total_Recovered, Loss_Value and Recovery_Rate are
\* 0 on every row; with no numeric column load_data fails with an error that names
\* the file.
C5_GenericBaseColumn ==
  (pc # "start" /\ ~HasCol(raw, "Cases_Property_Stolen")) =>
    LET f == AtBranch(raw)
    IN  /\ (\A j \in 1..Len(f.cols) : IsObject(f, f.cols[j])) =>
             (pc = "error" /\ error = [kind |-> "ValueError", arg |-> dataset_file])
        /\ (\E j \in 1..Len(f.cols) : ~IsObject(f, f.cols[j])) =>
             ~(pc = "error" /\ error.kind = "ValueError")
        /\ pc # "error" =>
             /\ Len(loaded.rows) = Len(raw.rows)
             /\ \E j \in 1..Len(f.cols) :
                  /\ IsBaseIndex(f, j)
                  /\ \A i \in 1..Len(loaded.rows) :
                       /\ loaded.rows[i]["Total_Crimes"] = FillNa0(f.rows[i][f.cols[j]])
                       /\ loaded.rows[i]["Total_Recovered"] = Num(0)
                       /\ loaded.rows[i]["Loss_Value"] = Num(0)
                       /\ loaded.rows[i]["Recovery_Rate"] = Num(0)

\* the table with the columns Area_Name and Murders_Reported is loaded, with the
\* Murders_Reported of a row as its Total_Crimes
C5_Witness ==
  /\ pc = "loaded"
  /\ raw.cols = <<"Area_Name", "Murders_Reported">>
  /\ \E i \in 1..Len(loaded.rows) :
       /\ raw.rows[i]["Murders_Reported"] = Num(3)
       /\ loaded.rows[i]["Total_Crimes"] = Num(3)
  /\ \E i \in 1..Len(loaded.rows) :
       /\ raw.rows[i]["Murders_Reported"] = NA
       /\ loaded.rows[i]["Total_Crimes"] = Num(0)

\* C6: the Recovery_Rate of a region of the state summary is the region's summed
\* Total_Recovered over its summed Total_Crimes when that is > 0, and 0 otherwise.
C6_RateRecomputed ==
  AfterAgg =>
    \A i \in 1..Len(state_agg) :
      LET I == RowsOfArea(df, state_agg[i].Area_Name)
          crimes == TotalOver(df, I, "Total_Crimes")
          recovered == TotalOver(df, I, "Total_Recovered")
          rate == state_agg[i].Recovery_Rate
      IN  IF GtZero(crimes)
          THEN rate.n * crimes.n * recovered.d = recovered.n * crimes.d * rate.d
          ELSE rate = Num(0)

\* a region with the two rows of crimes {10, 0} and recovered {5, 0}, and rate 1/2
C6_Witness ==
  /\ AfterAgg
  /\ \E i \in 1..Len(state_agg) :
       LET I == RowsOfArea(df, state_agg[i].Area_Name)
       IN  /\ Cardinality(I) = 2
           /\ {df.rows[j]["Total_Crimes"] : j \in I} = {Num(10), Num(0)}
           /\ {df.rows[j]["Total_Recovered"] : j \in I} = {Num(5), Num(0)}
           /\ state_agg[i].Recovery_Rate = Frac(1, 2)

\* the rows of a sequence of rows with a Year in lo..hi, in their order
RECURSIVE RowsInYears(_, _, _)
RowsInYears(rows, lo, hi) ==
  IF rows = <<>> THEN <<>>
  ELSE (IF /\ Head(rows)["Year"].k = "num"
           /\ lo <= Head(rows)["Year"].n /\ Head(rows)["Year"].n <= hi
        THEN <<Head(rows)>> ELSE <<>>) \o RowsInYears(Tail(rows), lo, hi)

LoadedHasYear ==
  HasCol(loaded, "Year") /\ \E i \in 1..Len(loaded.rows) : loaded.rows[i]["Year"].k = "num"

\* C7: with a Year present in the dataset, the rows kept are exactly those with a
\* Year in the selected range, bounds included, and rows without a Year are
\* dropped; without any Year no filter is applied.  No other row reaches the
\* aggregations.
C7_YearFilter ==
  /\ pc = "yeared" =>
       IF LoadedHasYear
       THEN /\ Len(year_range) = 2
            /\ df.rows = RowsInYears(loaded.rows, year_range[1], year_range[2])
       ELSE year_range = <<>> /\ df = loaded
  /\ (AfterAgg /\ LoadedHasYear) =>
       /\ \A i \in 1..Len(df.rows) :
            RowsInYears(<<df.rows[i]>>, year_range[1], year_range[2]) # <<>>
       /\ \A i \in 1..Len(drill.rows) :
            RowsInYears(<<drill.rows[i]>>, year_range[1], year_range[2]) # <<>>

\* years 2010, 2012 and 2015 with the range (2011, 2014): the 2012 row is left
C7_Witness ==
  /\ pc = "yeared"
  /\ [i \in 1..Len(loaded.rows) |-> loaded.rows[i]["Year"]] = <<Num(2010), Num(2012), Num(2015)>>
  /\ year_range = <<2011, 2014>>
  /\ df.rows = <<loaded.rows[2]>>

\* insertion of a row into a non-increasing sequence, after the rows that are equal
RECURSIVE InsertStable(_, _)
InsertStable(s, r) ==
  IF s = <<>> THEN <<r>>
  ELSE IF LessQ(Head(s).Total_Crimes, r.Total_Crimes) THEN <<r>> \o s
  ELSE <<Head(s)>> \o InsertStable(Tail(s), r)

RECURSIVE StableDesc(_)
StableDesc(s) ==
  IF s = <<>> THEN <<>>
  ELSE InsertStable(StableDesc(SubSeq(s, 1, Len(s) - 1)), s[Len(s)])

\* C8: the sub-group summary is the first 15 rows of the sub-group totals in
\* non-increasing order of Total_Crimes, sub-groups with equal totals staying in
\* the order of the grouping, in the output and at the cut after row 15.
C8_TopFifteenStable ==
  pc \in {"subgrouped", "done"} => sub_grp = HeadN(StableDesc(GroupBySub(drill)))

\* C9: load_data applied to a table load_data returned gives the same table.
C9_Idempotent ==
  pc = "loaded" => load_data(loaded, dataset_file) = Ok(loaded)

DrillHasYear ==
  HasCol(drill, "Year") /\ \E i \in 1..Len(drill.rows) : drill.rows[i]["Year"].k = "num"

\* C10: when a drill-down row has a Year the trend has one row for each distinct
\* Year of those rows, with the sum of their Total_Crimes, in strictly ascending
\* order of Year; otherwise the outcome is 'unavailable', never an empty trend.
C10_Trend ==
  pc = "done" =>
    IF DrillHasYear
    THEN /\ trend.available
         /\ trend.rows # <<>>
         /\ {trend.rows[i].Year : i \in 1..Len(trend.rows)} =
              {drill.rows[i]["Year"].n : i \in {j \in 1..Len(drill.rows) : drill.rows[j]["Year"].k = "num"}}
         /\ \A i \in 1..(Len(trend.rows) - 1) : trend.rows[i].Year < trend.rows[i + 1].Year
         /\ \A i \in 1..Len(trend.rows) :
              trend.rows[i].Total_Crimes =
                TotalOver(drill,
                          {j \in 1..Len(drill.rows) : drill.rows[j]["Year"] = Num(trend.rows[i].Year)},
                          "Total_Crimes")
    ELSE ~trend.available /\ trend.rows = <<>>

\* a trend of two years, one of them the sum of two rows
C10_Witness ==
  /\ pc = "done"
  /\ trend.available
  /\ Len(trend.rows) = 2
  /\ \E i \in 1..2 :
       Cardinality({j \in 1..Len(drill.rows) : drill.rows[j]["Year"] = Num(trend.rows[i].Year)}) = 2
=============================================================================
